---------------------------- MODULE Spec2Model ----------------------------
(***************************************************************************)
(* Model of the Cosmo vacuum monitor (src/apps/cosmo/cosmo_monitor.py):    *)
(* reconstruction of state intervals from Home Assistant history samples   *)
(* (_History.from_state_history), the cleaning-session scan                *)
(* (CosmoMonitor._get_cleaning_period), the attribution of cleaned area to *)
(* rooms (CosmoMonitor._get_area_cleaned_by_room) and the state-change     *)
(* handler CosmoMonitor.log_cleaning_time.                                 *)
(*                                                                         *)
(* Timestamps are integers (seconds).  A raw sample is a record            *)
(* [state, last_changed, last_updated] whose state is the string Home      *)
(* Assistant reports; an interval is [state, start_time, end_time] whose   *)
(* state is the parsed value (a float for the cleaned area, the enum       *)
(* member otherwise).                                                      *)
(*                                                                         *)
(* Also the nightly top-up of the credit card pot                          *)
(* (src/apps/monzo/credit_card_pot_manager.py): run_daily_process and      *)
(* top_up_credit_card_pot.  Amounts of money are integers in tenths of a   *)
(* penny, so that the roundings to pence have something to round.          *)
(***************************************************************************)
EXTENDS Integers, Sequences, FiniteSets, TLC

VARIABLES
    \* ---- _History.from_state_history (HistorySpec) ----
    recorded,             \* the samples Home Assistant holds for the entity
    cls,                  \* the _History subclass the classmethod is called on
    lower_limit,          \* requested lower limit
    upper_limit,          \* requested upper limit
    reverse,              \* the reverse flag
    hpc,                  \* position inside from_state_history
    unavailable_samples,  \* how many "unavailable" samples of the result set lie
                          \* inside the requested window
    state_history,        \* the parsed samples as first bound (never popped)
    parsed_state_history, \* the parsed samples still to pop (oldest first)
    merged_states,        \* the intervals emitted so far (newest first)
    end_time,             \* the local end_time (re-assigned at line 331)
    contributed,          \* the sample last bound to `state` that reached line 320
    states,               \* the returned History's states
    get_history_calls,    \* number of hass.get_history calls made
    result_sets,          \* len(hass_history) of the answer
    raw_samples,          \* len(state_history) of line 251, before the parse
    herr,                 \* the error raised by from_state_history, if any
    \* ---- CosmoMonitor.log_cleaning_time (Spec) ----
    pc,                   \* position inside log_cleaning_time
    old,                  \* the handler's `old` argument
    new,                  \* the handler's `new` argument
    task_history,         \* _get_cleaning_period: TaskStatusHistory (newest first)
    initial_range,        \* the "Initial range found": <<start, end>> of the scan
    cosmo_history,        \* _get_cleaning_period: CosmoStateHistory (newest first)
    clean_start_time,     \* session start
    clean_end_time,       \* session end
    room_history,         \* CurrentRoomHistory of the session (oldest first)
    area_cleaned_history, \* AreaCleanedHistory of the session (oldest first)
    area_index,           \* _get_area_cleaned_by_room: intervals iterated so far
    prev_value,           \* _get_area_cleaned_by_room: <<>> for None, else <<value>>
    room_state,           \* _get_area_cleaned_by_room: the last result of state_at
    area_cleaned_by_room, \* the dict, as its items in insertion order
    service_calls,        \* the input_datetime/set_datetime calls made
    history_queries,      \* number of get_history calls made by the handler
    err,                  \* the error the handler raised, if any
    \* ---- CreditCardPotManager.run_daily_process (ManagerSpec) ----
    mpc,                  \* position inside run_daily_process
    deficit,              \* round(amex_balance - monzo_credit_cards_balance, 2)
    monzo_current_account_balance,
    top_up_amount,        \* min(available, deficit)
    deposit_calls,        \* the client.deposit_into_pot calls made
    notify_calls          \* the notifications sent (script.notify_will, notify)

mvars == <<mpc, deficit, monzo_current_account_balance, top_up_amount,
           deposit_calls, notify_calls>>

hvars == <<recorded, cls, lower_limit, upper_limit, reverse, hpc, unavailable_samples,
           state_history,
           parsed_state_history, merged_states, end_time, contributed, states,
           get_history_calls, result_sets, raw_samples, herr>>

pvars == <<pc, old, new, task_history, initial_range, cosmo_history, clean_start_time,
           clean_end_time, room_history, area_cleaned_history, area_index, prev_value,
           room_state, area_cleaned_by_room, service_calls, history_queries, err>>

vars == <<hvars, pvars, mvars>>

-----------------------------------------------------------------------------
(* Bounds of the model *)

\* largest number of samples Home Assistant holds for one entity
MaxSamples == 3

\* the timestamps (seconds) samples and windows are drawn from
Times == {0, 10, 30}

-----------------------------------------------------------------------------
(* Values *)

None == [none |-> TRUE]

\* no exception has been raised
NoError == "no error"

UNAVAILABLE == "unavailable"

\* timedelta(seconds=20) of CurrentRoomHistory.filter_current_state_out
DebounceSeconds == 20

Max(a, b) == IF a >= b THEN a ELSE b

\* The states Home Assistant may report for the entity of each subclass
\* (a bounded choice of the enum's members, always with the sentinel).
RawStates(c) ==
    CASE c = "CosmoStateHistory"  -> {"cleaning", "docked", UNAVAILABLE}
      [] c = "TaskStatusHistory"  -> {"room_cleaning", "room_cleaning_paused",
                                      "completed", UNAVAILABLE}
      [] c = "CurrentRoomHistory" -> {"En-Suite", "Bathroom", UNAVAILABLE}
      [] c = "AreaCleanedHistory" -> {"0.0", "2.0", UNAVAILABLE}

\* pydantic's parse of a float state
FloatOf == [s \in {"0.0", "1.0", "2.0", "3.0"} |->
              CASE s = "0.0" -> 0 [] s = "1.0" -> 1 [] s = "2.0" -> 2 [] s = "3.0" -> 3]

\* pydantic's parse of `state: S` for the subclass's S
ParseState(c, s) ==
    IF c = "AreaCleanedHistory" /\ s \in DOMAIN FloatOf THEN FloatOf[s] ELSE s
-----------------------------------------------------------------------------
(* _History._get_hass_state_history and the parse of its result *)

\* the raw samples Home Assistant may hold for an entity: last_changed is never
\* after last_updated
RawSamples(c) ==
    {x \in [state : RawStates(c), last_changed : Times, last_updated : Times] :
        x.last_changed <= x.last_updated}

Reverse(s) == [i \in 1..Len(s) |-> s[Len(s) + 1 - i]]

\* what hass.get_history may answer when Home Assistant holds the samples db:
\* no result set, one result set (oldest or newest first), or two result sets
Responses(db) == {<<>>, <<db>>, <<Reverse(db)>>, <<db, db>>}

\* Python's sorted(..., key=itemgetter("last_updated")) is stable
InsertByLastUpdated(s, x) ==
    LET k == Cardinality({i \in 1..Len(s) : s[i].last_updated <= x.last_updated})
    IN  SubSeq(s, 1, k) \o <<x>> \o SubSeq(s, k + 1, Len(s))

RECURSIVE SortedByLastUpdated(_)
SortedByLastUpdated(raw) ==
    IF raw = <<>> THEN <<>>
    ELSE InsertByLastUpdated(SortedByLastUpdated(SubSeq(raw, 1, Len(raw) - 1)),
                             raw[Len(raw)])

UnexpectedResponseWhenEmpty(hass_history) == Len(hass_history) = 0

\* line 241: not hass_history or len(hass_history) != 1
UnexpectedResponse(hass_history) == Len(hass_history) # 1

IsAvailableAlways(s) == TRUE

IsAvailable(s) == s.state # UNAVAILABLE

\* the "before" validator of `states` and `state_history`
FilterUnavailableStates(v) == SelectSeq(v, IsAvailable)

\* cls.model_validate({"states": [], "state_history": _state_history}).state_history
ParsedStateHistory(c, v) ==
    LET kept == FilterUnavailableStates(v)
    IN  [i \in 1..Len(kept) |->
            [state        |-> ParseState(c, kept[i].state),
             last_changed |-> kept[i].last_changed,
             last_updated |-> kept[i].last_updated]]

-----------------------------------------------------------------------------
(* The filter policies *)

HistoryFilter(prev_state, curr_state, next_state) == FALSE

AreaCleanedHistoryKeepFirst(prev_state, curr_state, next_state) == FALSE

AreaCleanedHistoryFilter(prev_state, curr_state, next_state) ==
    /\ prev_state = None
    /\ next_state # None
    /\ curr_state.state > 0
    /\ next_state.state = 0

CurrentRoomHistoryFilter(prev_state, curr_state, next_state) ==
    /\ prev_state # None
    /\ next_state # None
    /\ prev_state.state = next_state.state
    /\ (next_state.start_time - curr_state.last_updated) < DebounceSeconds

filter_current_state_out(c, prev_state, curr_state, next_state) ==
    CASE c = "AreaCleanedHistory" -> AreaCleanedHistoryFilter(prev_state, curr_state, next_state)
      [] c = "CurrentRoomHistory" -> CurrentRoomHistoryFilter(prev_state, curr_state, next_state)
      [] OTHER                    -> HistoryFilter(prev_state, curr_state, next_state)

-----------------------------------------------------------------------------
(* The reconstruction loop of from_state_history.  The loop's locals are    *)
(* the record [pending, merged, end_time, state, broke].                    *)

Last(s) == s[Len(s)]
Front(s) == SubSeq(s, 1, Len(s) - 1)

IntervalEndNeverMoved(next_state, cur_end) == cur_end

\* the end_time of an interval appended while next_state is the last emitted
IntervalEnd(next_state, cur_end) ==
    IF next_state # None THEN next_state.start_time ELSE cur_end

StartTimeUnclamped(lower, state) == state.last_changed

\* start_time = max(lower_limit, state.last_changed)
StartTime(lower, state) == Max(lower, state.last_changed)

IsContinuationNever(next_state, state) == FALSE

\* lines 323-324: the last emitted interval has the state of this sample
IsContinuation(next_state, state) ==
    IF next_state = None THEN FALSE ELSE next_state.state = state.state

LoopBody(c, lower, l) ==
    LET state      == Last(l.pending)
        rest       == Front(l.pending)
        next_state == IF l.merged # <<>> THEN Last(l.merged) ELSE None
        prev_state == IF rest # <<>> THEN Last(rest) ELSE None
        start_time == StartTime(lower, state)
    IN  IF \/ state.last_updated > l.end_time
           \/ filter_current_state_out(c, prev_state, state, next_state)
        THEN [l EXCEPT !.pending = rest]
        ELSE IF IsContinuation(next_state, state)
        THEN [l EXCEPT !.pending = rest,
                       !.merged[Len(l.merged)].start_time = start_time,
                       !.state = state]
        ELSE LET new_end == IntervalEnd(next_state, l.end_time)
             IN  [pending  |-> rest,
                  merged   |-> Append(l.merged, [state      |-> state.state,
                                                 start_time |-> start_time,
                                                 end_time   |-> new_end]),
                  end_time |-> new_end,
                  state    |-> state,
                  broke    |-> state.last_updated < lower]

\* the same validator on the dumped intervals: a float never equals the sentinel
IsAvailableState(c, s) == c = "AreaCleanedHistory" \/ s.state # UNAVAILABLE

\* merged_states is newest first; the final model_validate filters `states` again
ReturnedStates(c, rev, merged) ==
    LET ordered == IF rev THEN merged ELSE Reverse(merged)
    IN  SelectSeq(ordered, LAMBDA s : IsAvailableState(c, s))

-----------------------------------------------------------------------------
(* HistorySpec: one call of from_state_history *)

HistoryClasses == {"CosmoStateHistory", "CurrentRoomHistory", "AreaCleanedHistory"}

\* no call of from_state_history is in progress
HistoryIdle ==
    /\ recorded = <<>>
    /\ lower_limit = 0
    /\ upper_limit = 0
    /\ reverse = FALSE
    /\ hpc = "idle"
    /\ unavailable_samples = 0
    /\ state_history = <<>>
    /\ parsed_state_history = <<>>
    /\ merged_states = <<>>
    /\ end_time = 0
    /\ contributed = None
    /\ states = <<>>
    /\ get_history_calls = 0
    /\ result_sets = 0
    /\ raw_samples = 0
    /\ herr = NoError

\* the handler has not been called
HandlerIdle ==
    /\ pc = "idle"
    /\ old = "completed"
    /\ new = "completed"
    /\ task_history = <<>>
    /\ initial_range = None
    /\ cosmo_history = <<>>
    /\ clean_start_time = 0
    /\ clean_end_time = 0
    /\ room_history = <<>>
    /\ area_cleaned_history = <<>>
    /\ area_index = 0
    /\ prev_value = <<>>
    /\ room_state = None
    /\ area_cleaned_by_room = <<>>
    /\ service_calls = <<>>
    /\ history_queries = 0
    /\ err = NoError

\* run_daily_process has not run
ManagerIdle ==
    /\ mpc = "idle"
    /\ deficit = 0
    /\ monzo_current_account_balance = 0
    /\ top_up_amount = 0
    /\ deposit_calls = <<>>
    /\ notify_calls = <<>>

HistoryInit ==
    /\ cls \in HistoryClasses
    /\ ManagerIdle
    /\ HistoryIdle
    /\ HandlerIdle

\* Home Assistant records one more sample of the entity (last_updated never
\* decreases from one recorded sample to the next)
Record ==
    /\ hpc = "idle"
    /\ Len(recorded) < MaxSamples
    /\ \E x \in RawSamples(cls) :
          /\ IF recorded = <<>> THEN TRUE
             ELSE recorded[Len(recorded)].last_updated <= x.last_updated
          /\ recorded' = Append(recorded, x)
    /\ UNCHANGED <<cls, lower_limit, upper_limit, reverse, hpc, unavailable_samples,
                   state_history, parsed_state_history, merged_states, end_time,
                   contributed, states, get_history_calls, result_sets, raw_samples,
                   herr>>
    /\ UNCHANGED pvars
    /\ UNCHANGED mvars

\* lines 293-303: the call with its arguments, the query, the result-set check,
\* the sort and the parse.  The samples are not queried again by this call.
GetHassStateHistory ==
    /\ hpc = "idle"
    /\ \E lower \in Times, upper \in Times, rev \in BOOLEAN :
          /\ lower <= upper
          /\ lower_limit' = lower
          /\ upper_limit' = upper
          /\ end_time' = upper
          /\ reverse' = rev
    /\ \E hass_history \in Responses(recorded) :
          /\ get_history_calls' = get_history_calls + 1
          /\ result_sets' = Len(hass_history)
          /\ IF UnexpectedResponse(hass_history)
             THEN /\ herr' = "HistoryUnavailable"
                  /\ hpc' = "raised"
                  /\ UNCHANGED <<unavailable_samples, state_history,
                                 parsed_state_history, raw_samples>>
             ELSE /\ LET _state_history == SortedByLastUpdated(hass_history[1])
                     IN  /\ parsed_state_history' = ParsedStateHistory(cls, _state_history)
                         /\ raw_samples' = Len(_state_history)
                         /\ unavailable_samples' =
                              Cardinality({i \in 1..Len(_state_history) :
                                  /\ _state_history[i].state = UNAVAILABLE
                                  /\ lower_limit' <= _state_history[i].last_changed
                                  /\ _state_history[i].last_updated <= upper_limit'})
                  /\ state_history' = parsed_state_history'
                  /\ hpc' = "loop"
                  /\ herr' = herr
    /\ recorded' = <<>>
    /\ UNCHANGED <<cls, merged_states, contributed, states>>
    /\ UNCHANGED pvars
    /\ UNCHANGED mvars

\* lines 306-344: one iteration of the while loop
LoopIteration ==
    /\ hpc = "loop"
    /\ parsed_state_history # <<>>
    /\ LET l == LoopBody(cls, lower_limit,
                         [pending |-> parsed_state_history, merged |-> merged_states,
                          end_time |-> end_time, state |-> contributed, broke |-> FALSE])
       IN  /\ parsed_state_history' = l.pending
           /\ merged_states' = l.merged
           /\ end_time' = l.end_time
           /\ contributed' = l.state
           /\ hpc' = IF l.broke THEN "break" ELSE "loop"
    /\ UNCHANGED <<recorded, cls, lower_limit, upper_limit, reverse, unavailable_samples,
                   state_history, states, get_history_calls, result_sets, raw_samples,
                   herr>>
    /\ UNCHANGED pvars
    /\ UNCHANGED mvars

\* lines 346-355: the loop has ended; reverse and build the History
ReturnHistory ==
    /\ \/ hpc = "break"
       \/ hpc = "loop" /\ parsed_state_history = <<>>
    /\ states' = ReturnedStates(cls, reverse, merged_states)
    /\ hpc' = "done"
    /\ UNCHANGED <<recorded, cls, lower_limit, upper_limit, reverse, unavailable_samples,
                   state_history, parsed_state_history, merged_states, end_time, contributed,
                   get_history_calls, result_sets, raw_samples, herr>>
    /\ UNCHANGED pvars
    /\ UNCHANGED mvars

HistoryNext == Record \/ GetHassStateHistory \/ LoopIteration \/ ReturnHistory

HistorySpec == HistoryInit /\ [][HistoryNext]_vars

-----------------------------------------------------------------------------
(* RoomHistorySpec: one call of CurrentRoomHistory.from_state_history, the   *)
(* vacuum moving between three rooms                                        *)

\* largest number of samples Home Assistant holds for sensor.cosmo_current_room
MaxRoomsRecorded == 4

RoomSamples ==
    {x \in [state : {"En-Suite", "Bathroom", "Kitchen"},
            last_changed : Times, last_updated : Times] :
        x.last_changed <= x.last_updated}

RoomHistoryInit ==
    /\ cls = "CurrentRoomHistory"
    /\ ManagerIdle
    /\ HistoryIdle
    /\ HandlerIdle

\* Home Assistant records one more sample of the current room
RecordRoom ==
    /\ hpc = "idle"
    /\ Len(recorded) < MaxRoomsRecorded
    /\ \E x \in RoomSamples :
          /\ IF recorded = <<>> THEN TRUE
             ELSE recorded[Len(recorded)].last_updated <= x.last_updated
          /\ recorded' = Append(recorded, x)
    /\ UNCHANGED <<cls, lower_limit, upper_limit, reverse, hpc, unavailable_samples,
                   state_history, parsed_state_history, merged_states, end_time,
                   contributed, states, get_history_calls, result_sets, raw_samples,
                   herr>>
    /\ UNCHANGED pvars
    /\ UNCHANGED mvars

RoomHistoryNext == RecordRoom \/ GetHassStateHistory \/ LoopIteration \/ ReturnHistory

RoomHistorySpec == RoomHistoryInit /\ [][RoomHistoryNext]_vars

-----------------------------------------------------------------------------
(* from_state_history as one call, for the callers in CosmoMonitor *)

RECURSIVE RunLoop(_, _, _)
RunLoop(c, lower, l) ==
    IF l.pending = <<>> \/ l.broke THEN l
    ELSE RunLoop(c, lower, LoopBody(c, lower, l))

ReconstructResuming(c, lower, upper, parsed) ==
    RunLoop(c, lower, [pending |-> parsed, merged |-> merged_states,
                       end_time |-> upper, state |-> None, broke |-> FALSE]).merged

\* lines 305-344: merged_states starts empty and end_time at the upper limit
Reconstruct(c, lower, upper, parsed) ==
    RunLoop(c, lower, [pending |-> parsed, merged |-> <<>>,
                       end_time |-> upper, state |-> None, broke |-> FALSE]).merged

\* the error raised, and the returned History's states
FromStateHistory(c, hass_history, lower, upper, rev) ==
    IF UnexpectedResponse(hass_history)
    THEN [err |-> "HistoryUnavailable", states |-> <<>>]
    ELSE LET parsed == ParsedStateHistory(c, SortedByLastUpdated(hass_history[1]))
         IN  [err |-> NoError,
              states |-> ReturnedStates(c, rev, Reconstruct(c, lower, upper, parsed))]

-----------------------------------------------------------------------------
(* The enums' properties *)

is_room_cleaning(s) == s \in {"cleaning", "room_cleaning", "zone_cleaning"}

is_paused(s) ==
    s \in {"cleaning_paused", "docking_paused", "map_cleaning_paused",
           "room_cleaning_paused"}

Rooms == {"Bathroom", "Bedroom", "En-Suite", "Hallway", "Kitchen", "Lounge", "Office"}

minimum_clean_area ==
    [r \in Rooms |->
        CASE r = "Bathroom" -> 3 [] r = "Bedroom" -> 6 [] r = "En-Suite" -> 2
          [] r = "Hallway"  -> 7 [] r = "Kitchen" -> 5 [] r = "Lounge"   -> 8
          [] r = "Office"   -> 5]

input_datetime_name ==
    [r \in Rooms |->
        CASE r = "Bathroom" -> "input_datetime.cosmo_last_bathroom_clean"
          [] r = "Bedroom"  -> "input_datetime.cosmo_last_bedroom_clean"
          [] r = "En-Suite" -> "input_datetime.cosmo_last_en_suite_clean"
          [] r = "Hallway"  -> "input_datetime.cosmo_last_hallway_clean"
          [] r = "Kitchen"  -> "input_datetime.cosmo_last_kitchen_clean"
          [] r = "Lounge"   -> "input_datetime.cosmo_last_lounge_clean"
          [] r = "Office"   -> "input_datetime.cosmo_last_office_clean"]

-----------------------------------------------------------------------------
(* CosmoMonitor._get_cleaning_period *)

\* timedelta(hours=24)
LookbackSeconds == 86400

\* self.datetime(aware=True) while the handler runs
Now == 86405

\* lines 541-550: the backward scan from interval i on; acc holds
\* clean_start_time and clean_end_time (found = clean_end_time is not None)
\* and whether the loop was left by its break
RECURSIVE ScanFrom(_, _, _)
ScanFrom(h, i, acc) ==
    IF i > Len(h) THEN acc
    ELSE IF is_room_cleaning(h[i].state)
    THEN ScanFrom(h, i + 1,
                  [acc EXCEPT !.found = TRUE,
                              !.clean_end_time = IF acc.found THEN @ ELSE h[i].end_time,
                              !.clean_start_time = h[i].start_time])
    ELSE IF ~is_paused(h[i].state) /\ acc.found
    THEN [acc EXCEPT !.broke = TRUE]
    ELSE ScanFrom(h, i + 1, acc)

ScanTaskHistoryExchanged(h) ==
    LET acc == ScanFrom(h, 1, [found |-> FALSE, broke |-> FALSE,
                               clean_start_time |-> 0, clean_end_time |-> 0])
    IN  IF acc.broke
        THEN [err |-> NoError, clean_start_time |-> acc.clean_end_time,
              clean_end_time |-> acc.clean_start_time]
        ELSE [err |-> "NoSessionFound", clean_start_time |-> 0, clean_end_time |-> 0]

ScanTaskHistoryDefaulting(h) ==
    LET acc == ScanFrom(h, 1, [found |-> FALSE, broke |-> FALSE,
                               clean_start_time |-> Now - LookbackSeconds,
                               clean_end_time |-> Now])
    IN  [err |-> IF acc.found /\ ~acc.broke THEN "NoSessionFound" ELSE NoError,
         clean_start_time |-> acc.clean_start_time,
         clean_end_time |-> acc.clean_end_time]

\* the for ... else: the else clause raises unless the loop was left by break
ScanTaskHistory(h) ==
    LET acc == ScanFrom(h, 1, [found |-> FALSE, broke |-> FALSE,
                               clean_start_time |-> 0, clean_end_time |-> 0])
    IN  IF acc.broke
        THEN [err |-> NoError, clean_start_time |-> acc.clean_start_time,
              clean_end_time |-> acc.clean_end_time]
        ELSE [err |-> "NoSessionFound", clean_start_time |-> 0, clean_end_time |-> 0]

RefinedEndFromStart(h, tentative_end) ==
    LET cleaning == {i \in 1..Len(h) : h[i].state = "cleaning"}
    IN  IF cleaning = {} THEN tentative_end
        ELSE h[CHOOSE i \in cleaning : \A j \in cleaning : i <= j].start_time

\* lines 563-566: the end of the first (newest) cleaning interval, if any
RefinedEnd(h, tentative_end) ==
    LET cleaning == {i \in 1..Len(h) : h[i].state = "cleaning"}
    IN  IF cleaning = {} THEN tentative_end
        ELSE h[CHOOSE i \in cleaning : \A j \in cleaning : i <= j].end_time

-----------------------------------------------------------------------------
(* _History.state_at and CosmoMonitor._get_area_cleaned_by_room *)

state_at_closed(h, dttm) ==
    LET covering == {i \in 1..Len(h) : h[i].start_time <= dttm /\ dttm <= h[i].end_time}
    IN  IF covering = {} THEN None
        ELSE h[CHOOSE i \in covering : \A j \in covering : i <= j]

\* lines 368-376: the first interval with start_time <= dttm < end_time, or
\* None where the method raises
state_at(h, dttm) ==
    LET covering == {i \in 1..Len(h) : h[i].start_time <= dttm /\ dttm < h[i].end_time}
    IN  IF covering = {} THEN None
        ELSE h[CHOOSE i \in covering : \A j \in covering : i <= j]

\* prev_value or 0
PrevOrZero(prev) == IF prev = <<>> THEN 0 ELSE prev[1]

IsAttributedAfterFirst(value, prev) ==
    value # 0 /\ (IF prev = <<>> THEN FALSE ELSE prev[1] # value)

\* area_state.state not in {None, 0.0, prev_value}
IsAttributed(value, prev) == value # 0 /\ (prev = <<>> \/ prev[1] # value)

IncrementAbsolute(value, prev) == value

\* the amount added at line 510
Increment(value, prev) == value - PrevOrZero(prev)

\* the position of room's item in the dict, 0 if absent
ItemOf(d, room) ==
    IF \E i \in 1..Len(d) : d[i].room = room
    THEN CHOOSE i \in 1..Len(d) : d[i].room = room
    ELSE 0

CreditKeepingEnd(d, room, amount, end) ==
    LET seeded == IF ItemOf(d, room) = 0
                  THEN Append(d, [room |-> room, area |-> 0, end_time |-> end])
                  ELSE d
    IN  [seeded EXCEPT ![ItemOf(seeded, room)].area = @ + amount]

\* lines 502-514: setdefault, add the increment, update end_time
Credit(d, room, amount, end) ==
    LET seeded == IF ItemOf(d, room) = 0
                  THEN Append(d, [room |-> room, area |-> 0, end_time |-> end])
                  ELSE d
        k == ItemOf(seeded, room)
    IN  [seeded EXCEPT ![k].area = @ + amount, ![k].end_time = end]

\* lines 626-637: one set_datetime call per item that meets its minimum
\* datetime.isoformat(): the text of an aware datetime, one text per instant
isoformat(dttm) == [isoformat |-> dttm]

CallFor(item) ==
    [entity_id |-> input_datetime_name[item.room],
     datetime |-> isoformat(item.end_time)]

MeetsMinimumStrictly(item) == item.area > minimum_clean_area[item.room]

\* area_cleaned >= room.minimum_clean_area
MeetsMinimum(item) == item.area >= minimum_clean_area[item.room]

RECURSIVE ServiceCalls(_)
ServiceCalls(d) ==
    IF d = <<>> THEN <<>>
    ELSE (IF MeetsMinimum(d[1]) THEN <<CallFor(d[1])>> ELSE <<>>)
         \o ServiceCalls(SubSeq(d, 2, Len(d)))

-----------------------------------------------------------------------------
(* Spec: one call of CosmoMonitor.log_cleaning_time *)

\* largest number of samples Home Assistant holds for each entity
MaxTaskSamples == 4
MaxCosmoSamples == 3
MaxRoomSamples == 3
MaxAreaSamples == 3

\* the timestamps (seconds) of the samples around the session
SessionTimes == {0, 10, 20, 30}

\* the arguments the listener may pass as old and new
HandlerStatuses == {"room_cleaning", "room_cleaning_paused", "completed", "fast_mapping"}

SessionStates(c) ==
    CASE c = "TaskStatusHistory"  -> {"room_cleaning", "room_cleaning_paused", "completed"}
      [] c = "CosmoStateHistory"  -> {"cleaning", "docked"}
      [] c = "CurrentRoomHistory" -> {"En-Suite", "Bathroom"}
      [] c = "AreaCleanedHistory" -> {"0.0", "2.0", "3.0"}

SessionSamples(c) ==
    {[state |-> v, last_changed |-> t, last_updated |-> t] :
        v \in SessionStates(c), t \in SessionTimes}

\* the sequences of at most n samples of S, each recorded later than the one before
RECURSIVE RecordedUpTo(_, _)
RecordedUpTo(S, n) ==
    IF n = 0 THEN {<<>>}
    ELSE LET shorter == RecordedUpTo(S, n - 1)
             longest == {r \in shorter : Len(r) = n - 1}
             Later(r) == {x \in S : IF r = <<>> THEN TRUE
                                   ELSE r[Len(r)].last_updated < x.last_updated}
         IN  shorter \cup UNION {{Append(r, x) : x \in Later(r)} : r \in longest}

\* what Home Assistant may hold for each entity when it is queried
Recordings ==
    [c \in {"TaskStatusHistory", "CosmoStateHistory", "CurrentRoomHistory",
            "AreaCleanedHistory"} |->
        RecordedUpTo(SessionSamples(c),
                     CASE c = "TaskStatusHistory"  -> MaxTaskSamples
                       [] c = "CosmoStateHistory"  -> MaxCosmoSamples
                       [] c = "CurrentRoomHistory" -> MaxRoomSamples
                       [] c = "AreaCleanedHistory" -> MaxAreaSamples)]

\* every answer get_history may give for the entity of subclass c
Answers(c) == UNION {Responses(db) : db \in Recordings[c]}

Init ==
    /\ cls = "TaskStatusHistory"
    /\ ManagerIdle
    /\ HistoryIdle
    /\ HandlerIdle

\* lines 576-596: the call and its guard
NotARoomCleaningUnlessCompleted(o, n) == n # "completed"

\* line 590: new != COMPLETED or not (old.is_room_cleaning or old.is_paused)
NotARoomCleaning(o, n) ==
    n # "completed" \/ ~(is_room_cleaning(o) \/ is_paused(o))

PropagateSwallowed(e, resume) == resume

\* log_cleaning_time and its callees have no try/except: an exception raised
\* by a step ends the invocation, otherwise the handler resumes at the next step
Propagate(e, resume) == IF e # NoError THEN "raised" ELSE resume

LogCleaningTime ==
    /\ pc = "idle"
    /\ \E o \in HandlerStatuses, n \in HandlerStatuses :
          /\ old' = o
          /\ new' = n
          /\ pc' = IF NotARoomCleaning(o, n)
                   THEN "returned"
                   ELSE "task_history"
    /\ UNCHANGED <<task_history, initial_range, cosmo_history, clean_start_time,
                   clean_end_time, room_history, area_cleaned_history, area_index,
                   prev_value, room_state,
                   area_cleaned_by_room, service_calls, history_queries, err>>
    /\ UNCHANGED hvars
    /\ UNCHANGED mvars

\* lines 531-536: the task status history of the last 24 hours, newest first
GetTaskHistory ==
    /\ pc = "task_history"
    /\ \E hass_history \in Answers("TaskStatusHistory") :
          LET h == FromStateHistory("TaskStatusHistory", hass_history,
                                    Now - LookbackSeconds, Now, TRUE)
          IN  IF h.err # NoError
              THEN /\ err' = h.err
                   /\ pc' = Propagate(h.err, "scan")
                   /\ UNCHANGED task_history
              ELSE /\ task_history' = h.states
                   /\ pc' = "scan"
                   /\ UNCHANGED err
    /\ history_queries' = history_queries + 1
    /\ UNCHANGED <<old, new, initial_range, cosmo_history, clean_start_time,
                   clean_end_time, room_history, area_cleaned_history, area_index,
                   prev_value, room_state,
                   area_cleaned_by_room, service_calls>>
    /\ UNCHANGED hvars
    /\ UNCHANGED mvars

\* lines 541-552: the backward scan
ScanHistory ==
    /\ pc = "scan"
    /\ LET r == ScanTaskHistory(task_history)
       IN  IF r.err # NoError
           THEN /\ err' = r.err
                /\ pc' = Propagate(r.err, "cosmo_history")
                /\ UNCHANGED <<clean_start_time, clean_end_time, initial_range>>
           ELSE /\ clean_start_time' = r.clean_start_time
                /\ clean_end_time' = r.clean_end_time
                /\ initial_range' = <<r.clean_start_time, r.clean_end_time>>
                /\ pc' = "cosmo_history"
                /\ UNCHANGED err
    /\ UNCHANGED <<old, new, task_history, cosmo_history, room_history,
                   area_cleaned_history, area_index, prev_value, room_state,
                   area_cleaned_by_room,
                   service_calls, history_queries>>
    /\ UNCHANGED hvars
    /\ UNCHANGED mvars

\* lines 554-559: the vacuum's history over the initial range, newest first
GetCosmoHistory ==
    /\ pc = "cosmo_history"
    /\ \E hass_history \in Answers("CosmoStateHistory") :
          LET h == FromStateHistory("CosmoStateHistory", hass_history,
                                    clean_start_time, clean_end_time, TRUE)
          IN  IF h.err # NoError
              THEN /\ err' = h.err
                   /\ pc' = Propagate(h.err, "refine")
                   /\ UNCHANGED cosmo_history
              ELSE /\ cosmo_history' = h.states
                   /\ pc' = "refine"
                   /\ UNCHANGED err
    /\ history_queries' = history_queries + 1
    /\ UNCHANGED <<old, new, task_history, initial_range, clean_start_time,
                   clean_end_time, room_history, area_cleaned_history, area_index,
                   prev_value, room_state,
                   area_cleaned_by_room, service_calls>>
    /\ UNCHANGED hvars
    /\ UNCHANGED mvars

\* lines 563-574: the refinement and the return of _get_cleaning_period
RefineCleaningPeriod ==
    /\ pc = "refine"
    /\ clean_end_time' = RefinedEnd(cosmo_history, clean_end_time)
    /\ pc' = "room_history"
    /\ UNCHANGED <<old, new, task_history, initial_range, cosmo_history,
                   clean_start_time, room_history, area_cleaned_history, area_index,
                   prev_value, room_state,
                   area_cleaned_by_room, service_calls, history_queries, err>>
    /\ UNCHANGED hvars
    /\ UNCHANGED mvars

\* lines 608-612: the room history of the session, oldest first; the locals
\* of _get_cleaning_period are gone
GetRoomHistory ==
    /\ pc = "room_history"
    /\ \E hass_history \in Answers("CurrentRoomHistory") :
          LET h == FromStateHistory("CurrentRoomHistory", hass_history,
                                    clean_start_time, clean_end_time, FALSE)
          IN  IF h.err # NoError
              THEN /\ err' = h.err
                   /\ pc' = Propagate(h.err, "area_history")
                   /\ UNCHANGED room_history
              ELSE /\ room_history' = h.states
                   /\ pc' = "area_history"
                   /\ UNCHANGED err
    /\ history_queries' = history_queries + 1
    /\ task_history' = <<>>
    /\ cosmo_history' = <<>>
    /\ initial_range' = None
    /\ UNCHANGED <<old, new, clean_start_time, clean_end_time,
                   area_cleaned_history, area_index, prev_value, room_state,
                   area_cleaned_by_room,
                   service_calls>>
    /\ UNCHANGED hvars
    /\ UNCHANGED mvars

\* lines 615-619: the cleaned-area history of the session, oldest first
GetAreaCleanedHistory ==
    /\ pc = "area_history"
    /\ \E hass_history \in Answers("AreaCleanedHistory") :
          LET h == FromStateHistory("AreaCleanedHistory", hass_history,
                                    clean_start_time, clean_end_time, FALSE)
          IN  IF h.err # NoError
              THEN /\ err' = h.err
                   /\ pc' = Propagate(h.err, "aggregate")
                   /\ UNCHANGED area_cleaned_history
              ELSE /\ area_cleaned_history' = h.states
                   /\ pc' = "aggregate"
                   /\ UNCHANGED err
    /\ history_queries' = history_queries + 1
    /\ UNCHANGED <<old, new, task_history, initial_range, cosmo_history,
                   clean_start_time, clean_end_time, room_history, area_index,
                   prev_value, room_state,
                   area_cleaned_by_room, service_calls>>
    /\ UNCHANGED hvars
    /\ UNCHANGED mvars

\* lines 498-516: one iteration of the loop of _get_area_cleaned_by_room
AttributeArea ==
    /\ pc = "aggregate"
    /\ area_index < Len(area_cleaned_history)
    /\ LET area_state == area_cleaned_history[area_index + 1]
           found == state_at(room_history, area_state.start_time)
       IN  IF ~IsAttributed(area_state.state, prev_value)
           THEN /\ prev_value' = <<area_state.state>>
                /\ area_index' = area_index + 1
                /\ UNCHANGED <<area_cleaned_by_room, room_state, pc, err>>
           ELSE IF found = None
           THEN /\ err' = "NotFound"
                /\ pc' = Propagate("NotFound", "aggregate")
                /\ UNCHANGED <<area_cleaned_by_room, room_state, prev_value, area_index>>
           ELSE /\ room_state' = found
                /\ area_cleaned_by_room' =
                      Credit(area_cleaned_by_room, found.state,
                             Increment(area_state.state, prev_value),
                             area_state.end_time)
                /\ prev_value' = <<area_state.state>>
                /\ area_index' = area_index + 1
                /\ UNCHANGED <<pc, err>>
    /\ UNCHANGED <<old, new, task_history, initial_range, cosmo_history,
                   clean_start_time, clean_end_time, room_history,
                   area_cleaned_history, service_calls, history_queries>>
    /\ UNCHANGED hvars
    /\ UNCHANGED mvars

\* lines 518-644: the mapping is returned and the timestamps are set
SetLastCleaned ==
    /\ pc = "aggregate"
    /\ area_index = Len(area_cleaned_history)
    /\ service_calls' = ServiceCalls(area_cleaned_by_room)
    /\ pc' = "returned"
    /\ UNCHANGED <<old, new, task_history, initial_range, cosmo_history,
                   clean_start_time, clean_end_time, room_history,
                   area_cleaned_history, area_index, prev_value, room_state,
                   area_cleaned_by_room,
                   history_queries, err>>
    /\ UNCHANGED hvars
    /\ UNCHANGED mvars

Next ==
    \/ LogCleaningTime
    \/ GetTaskHistory
    \/ ScanHistory
    \/ GetCosmoHistory
    \/ RefineCleaningPeriod
    \/ GetRoomHistory
    \/ GetAreaCleanedHistory
    \/ AttributeArea
    \/ SetLastCleaned

Spec == Init /\ [][Next]_vars

-----------------------------------------------------------------------------
(* Properties of from_state_history (HistorySpec) *)

\* the returned History, oldest interval first
OldestFirst == IF reverse THEN Reverse(states) ELSE states

\* C1: in every History from_state_history returns, for every subclass, the
\* end of each interval equals the start of the next newer interval.
C1_AdjacentIntervalsContiguous ==
    hpc = "done" =>
        \A i \in 1..(Len(OldestFirst) - 1) :
            OldestFirst[i].end_time = OldestFirst[i + 1].start_time

\* C1 witness: a History of two or more intervals was returned from three
\* parsed samples (one of them merged or filtered out).
C1_Witness ==
    /\ hpc = "done"
    /\ Len(states) >= 2
    /\ Len(state_history) = 3

\* C2 as stated: any non-empty sample set yields a History that spans the
\* requested window exactly.
C2_SpansWindowExactly ==
    (hpc = "done" /\ state_history # <<>>) =>
        /\ states # <<>>
        /\ OldestFirst[1].start_time = lower_limit
        /\ OldestFirst[Len(OldestFirst)].end_time = upper_limit

\* C2 amended: a non-empty History ends at upper_limit and starts at
\* max(lower_limit, last_changed) of the oldest sample that emitted or
\* extended an interval, so never before lower_limit.
C2_SpansFromOldestContribution ==
    (hpc = "done" /\ states # <<>>) =>
        /\ OldestFirst[Len(OldestFirst)].end_time = upper_limit
        /\ contributed # None
        /\ OldestFirst[1].start_time = Max(lower_limit, contributed.last_changed)
        /\ OldestFirst[1].start_time >= lower_limit

\* C2 witness: a returned History whose oldest interval starts after
\* lower_limit, because no contributing sample changed that early.
C2_Witness ==
    /\ hpc = "done"
    /\ states # <<>>
    /\ OldestFirst[1].start_time > lower_limit
    /\ OldestFirst[Len(OldestFirst)].end_time = upper_limit

\* C10 as stated: with the default policy an "unavailable" sample inside the
\* window yields an "unavailable" interval.
C10_UnavailableYieldsInterval ==
    (hpc = "done" /\ cls = "CosmoStateHistory" /\ unavailable_samples > 0) =>
        \E i \in 1..Len(states) : states[i].state = UNAVAILABLE

\* C10 amended: for every subclass the "unavailable" samples are removed by the
\* validator before the loop, so no parsed sample and no interval of a
\* History has the sentinel as its state.
C10_UnavailableNeverReconstructed ==
    hpc \in {"loop", "break", "done"} =>
        /\ \A i \in 1..Len(state_history) : IsAvailableState(cls, state_history[i])
        /\ \A i \in 1..Len(merged_states) : IsAvailableState(cls, merged_states[i])
        /\ \A i \in 1..Len(states) : IsAvailableState(cls, states[i])

\* C10 witness: the default policy returned a History from a result set
\* that held an "unavailable" sample inside the window.
C10_Witness ==
    /\ hpc = "done"
    /\ cls = "CosmoStateHistory"
    /\ unavailable_samples > 0
    /\ states # <<>>

-----------------------------------------------------------------------------
(* Properties of log_cleaning_time (Spec) *)

\* _get_cleaning_period has left its scan: task_history is its local, alive
\* until the method returns or raises
ScanReturned ==
    /\ history_queries \in {1, 2}
    /\ pc # "scan"
    /\ err # "HistoryUnavailable"

ActiveIntervals(h) == {i \in 1..Len(h) : is_room_cleaning(h[i].state)}

\* in a newest-first History the newest interval has the smallest index
NewestActive(h) == CHOOSE i \in ActiveIntervals(h) : \A j \in ActiveIntervals(h) : i <= j

ReachableActive(h) ==
    {j \in ActiveIntervals(h) :
        /\ j >= NewestActive(h)
        /\ \A k \in NewestActive(h)..j :
              is_room_cleaning(h[k].state) \/ is_paused(h[k].state)}

OldestReachableActive(h) ==
    CHOOSE i \in ReachableActive(h) : \A j \in ReachableActive(h) : j <= i

\* C3 as stated: whenever the task-status History holds an active interval the
\* scan yields a session, from the start of the oldest active interval
\* reachable through active or paused intervals to the end of the newest
\* active interval, and does not fail.
C3_ActiveIntervalYieldsSession ==
    (ScanReturned /\ ActiveIntervals(task_history) # {}) =>
        /\ err # "NoSessionFound"
        /\ initial_range # None
        /\ initial_range[1] = task_history[OldestReachableActive(task_history)].start_time
        /\ initial_range[2] = task_history[NewestActive(task_history)].end_time

\* C4: when the scan exhausts a task-status History that holds no active
\* interval, the handler fails with NoSessionFound, has no session and makes
\* no further query or service call.
C4_NoActiveIntervalFails ==
    (ScanReturned /\ ActiveIntervals(task_history) = {}) =>
        /\ pc = "raised"
        /\ err = "NoSessionFound"
        /\ initial_range = None
        /\ history_queries = 1
        /\ service_calls = <<>>

\* C4 witness: the scan went through a non-empty History of idle and paused
\* intervals only, and raised.
C4_Witness ==
    /\ pc = "raised"
    /\ err = "NoSessionFound"
    /\ Len(task_history) >= 2
    /\ ActiveIntervals(task_history) = {}

ConfirmingIntervals(h) == {i \in 1..Len(h) : h[i].state = "cleaning"}

\* C5: after the refinement the session end is the end of the newest CLEANING
\* interval of the vacuum-state History if there is one, else the tentative
\* end of the scan; the session start is the one the scan found.
C5_RefinedEndFromNewestConfirming ==
    pc = "room_history" =>
        /\ clean_start_time = initial_range[1]
        /\ IF ConfirmingIntervals(cosmo_history) = {}
           THEN clean_end_time = initial_range[2]
           ELSE \E i \in ConfirmingIntervals(cosmo_history) :
                   /\ \A j \in ConfirmingIntervals(cosmo_history) :
                         cosmo_history[j].start_time <= cosmo_history[i].start_time
                   /\ clean_end_time = cosmo_history[i].end_time

\* C5 witness: a CLEANING interval that ends before the tentative end moved
\* the session end.
C5_Witness ==
    /\ pc = "room_history"
    /\ ConfirmingIntervals(cosmo_history) # {}
    /\ clean_end_time < initial_range[2]
    /\ clean_start_time = initial_range[1]

\* the delta interval at position i of the oldest-first area History is
\* attributed: its value is neither zero nor the value before it
DeltaAttributed(h, i) ==
    h[i].state # 0 /\ (i = 1 \/ h[i].state # h[i - 1].state)

\* its value minus the previous value, or the value itself for the first
DeltaAmount(h, i) == h[i].state - (IF i = 1 THEN 0 ELSE h[i - 1].state)

\* the delta intervals among the first k that went to room
AttributedTo(room, k) ==
    {i \in 1..k :
        /\ DeltaAttributed(area_cleaned_history, i)
        /\ \E j \in 1..Len(room_history) :
              /\ room_history[j] = state_at(room_history, area_cleaned_history[i].start_time)
              /\ room_history[j].state = room}

RECURSIVE SumOfDeltas(_)
SumOfDeltas(I) ==
    IF I = {} THEN 0
    ELSE LET i == CHOOSE x \in I : TRUE
         IN  DeltaAmount(area_cleaned_history, i) + SumOfDeltas(I \ {i})

\* C6: after k delta intervals the mapping holds exactly the rooms some
\* attributed interval went to, each with the sum of the deltas of its
\* intervals, and previous_value is the value of interval k, attributed or not.
C6_CreditsSumOfDeltas ==
    /\ \A room \in Rooms :
          IF AttributedTo(room, area_index) = {}
          THEN ItemOf(area_cleaned_by_room, room) = 0
          ELSE /\ ItemOf(area_cleaned_by_room, room) # 0
               /\ area_cleaned_by_room[ItemOf(area_cleaned_by_room, room)].area =
                     SumOfDeltas(AttributedTo(room, area_index))
    /\ \A i \in 1..Len(area_cleaned_by_room) : area_cleaned_by_room[i].room \in Rooms
    /\ prev_value = IF area_index = 0 THEN <<>>
                    ELSE <<area_cleaned_history[area_index].state>>

\* C6 witness: a pass over three delta intervals, the first of value zero and
\* so not attributed, that credited two rooms.
C6_Witness ==
    /\ pc = "returned"
    /\ area_index = 3
    /\ area_cleaned_history[1].state = 0
    /\ Len(area_cleaned_by_room) = 2
    /\ \A i \in 1..2 : area_cleaned_by_room[i].area > 0

CallsFor(room) ==
    {i \in 1..Len(service_calls) : service_calls[i].entity_id = input_datetime_name[room]}

\* C7: set_datetime is called for a room if and only if the room is in the
\* mapping with an area of at least its minimum_clean_area, at most once per
\* room, and only when the handler returns.
C7_CalledIffMinimumMet ==
    /\ pc # "returned" => service_calls = <<>>
    /\ pc = "returned" =>
          \A room \in Rooms :
              /\ Cardinality(CallsFor(room)) <= 1
              /\ CallsFor(room) # {} <=>
                    \E i \in 1..Len(area_cleaned_by_room) :
                        /\ area_cleaned_by_room[i].room = room
                        /\ area_cleaned_by_room[i].area >= minimum_clean_area[room]

\* C7 witness: one room cleaned to exactly its minimum got its call, another
\* room below its minimum got none.
C7_Witness ==
    /\ pc = "returned"
    /\ Len(service_calls) = 1
    /\ \E i, j \in 1..Len(area_cleaned_by_room) :
          /\ area_cleaned_by_room[i].area = minimum_clean_area[area_cleaned_by_room[i].room]
          /\ area_cleaned_by_room[j].area > 0
          /\ area_cleaned_by_room[j].area < minimum_clean_area[area_cleaned_by_room[j].room]

\* the first delta interval whose attribution brought room to its minimum
CrossingIntervals(room) ==
    {k \in AttributedTo(room, area_index) :
        SumOfDeltas(AttributedTo(room, k)) >= minimum_clean_area[room]}

\* C8 as stated: the datetime of a room's call is the end of the delta
\* interval that brought the room's area to its minimum.
C8_EndOfCrossingInterval ==
    pc = "returned" =>
        \A room \in Rooms : \A c \in CallsFor(room) :
            \E k \in CrossingIntervals(room) :
                /\ \A j \in CrossingIntervals(room) : k <= j
                /\ service_calls[c].datetime = isoformat(area_cleaned_history[k].end_time)

\* C8 amended: the datetime of a room's call is the end of the last delta
\* interval attributed to the room, whether or not the minimum was met earlier.
C8_EndOfLastAttributedInterval ==
    pc = "returned" =>
        \A room \in Rooms : \A c \in CallsFor(room) :
            \E k \in AttributedTo(room, area_index) :
                /\ \A j \in AttributedTo(room, area_index) : j <= k
                /\ service_calls[c].datetime = isoformat(area_cleaned_history[k].end_time)

\* C8 witness: a room met its minimum with one delta interval and was
\* credited again by a later one; its call carries the later end.
C8_Witness ==
    /\ pc = "returned"
    /\ \E room \in Rooms : \E c \in CallsFor(room) :
          \E k \in CrossingIntervals(room) : \E j \in AttributedTo(room, area_index) :
              /\ k < j
              /\ service_calls[c].datetime = isoformat(area_cleaned_history[j].end_time)
              /\ service_calls[c].datetime # isoformat(area_cleaned_history[k].end_time)

\* C9 as stated: a negative delta counts as zero, so no step of the pass
\* lowers a room's area and no area is negative.
C9_AreaNeverDecreases ==
    [][/\ \A i \in 1..Len(area_cleaned_by_room) :
             area_cleaned_by_room'[i].area >= area_cleaned_by_room[i].area
       /\ \A i \in 1..Len(area_cleaned_by_room') :
             area_cleaned_by_room'[i].area >= 0]_vars

-----------------------------------------------------------------------------
(* Further properties of from_state_history (HistorySpec) *)

\* the loop has ended (by break or by exhaustion) and the History is returned
Reconstructed == hpc = "done"

\* the parsed sample lies inside the requested window
InWindow(x) == lower_limit <= x.last_changed /\ x.last_updated <= upper_limit

\* positions i, i + 1 of the parsed samples: two adjacent samples of one state,
\* both inside the window, the earlier one the first of its run
AdjacentSameState(i) ==
    /\ i \in 1..(Len(state_history) - 1)
    /\ state_history[i].state = state_history[i + 1].state
    /\ InWindow(state_history[i])
    /\ InWindow(state_history[i + 1])
    /\ i > 1 => state_history[i - 1].state # state_history[i].state

\* C13 as stated: two adjacent samples of one state, neither filtered (default
\* policy) nor out of the window, give one interval that starts at the
\* earlier sample's max(lower_limit, last_changed) and ends at the start of
\* the next newer interval, or at upper_limit when there is none.
C13_AdjacentSameStateMerge ==
    (Reconstructed /\ cls = "CosmoStateHistory") =>
        \A i \in 1..Len(state_history) :
            AdjacentSameState(i) =>
                \E m \in 1..Len(merged_states) :
                    /\ merged_states[m].state = state_history[i].state
                    /\ merged_states[m].start_time =
                          Max(lower_limit, state_history[i].last_changed)
                    /\ merged_states[m].end_time =
                          IF m = 1 THEN upper_limit
                          ELSE merged_states[m - 1].start_time

\* C14 as stated: every interval of a returned History has
\* lower_limit <= start_time <= end_time <= upper_limit.
C14_IntervalsWithinWindow ==
    Reconstructed =>
        \A i \in 1..Len(states) :
            /\ lower_limit <= states[i].start_time
            /\ states[i].start_time <= states[i].end_time
            /\ states[i].end_time <= upper_limit

\* the only sample still to pop is positive and the last emitted interval is zero
ResetArtifactPending ==
    IF cls = "AreaCleanedHistory" /\ hpc = "loop" /\ Len(parsed_state_history) = 1
          /\ merged_states # <<>>
    THEN parsed_state_history[1].state > 0 /\ Last(merged_states).state = 0
    ELSE FALSE

\* C12: with the reset-artifact policy, popping a positive oldest sample while
\* the last emitted interval is zero emits and changes no interval; the loop
\* ends with the zero interval as the oldest, so nothing is there to credit.
C12_ResetArtifactEmitsNothing ==
    [][ResetArtifactPending =>
          /\ merged_states' = merged_states
          /\ parsed_state_history' = <<>>
          /\ hpc' = "loop"
          /\ Last(merged_states').state = 0]_vars

\* C12 witness: a positive oldest sample inside the window, not too late, was
\* dropped: the returned History is the zero interval alone.
C12_Witness ==
    /\ Reconstructed
    /\ cls = "AreaCleanedHistory"
    /\ Len(state_history) = 2
    /\ state_history[1].state > 0
    /\ state_history[1].last_updated <= end_time
    /\ state_history[2].state = 0
    /\ Len(states) = 1
    /\ states[1].state = 0

\* the computed properties lower_limit and upper_limit of a History (lines
\* 201-211): states[0].start_time and states[-1].end_time, an IndexError
\* when states is empty
History_lower_limit(s) ==
    IF s = <<>> THEN [err |-> "IndexError", value |-> 0]
    ELSE [err |-> NoError, value |-> s[1].start_time]

History_upper_limit(s) ==
    IF s = <<>> THEN [err |-> "IndexError", value |-> 0]
    ELSE [err |-> NoError, value |-> s[Len(s)].end_time]

\* C15 as stated: one result set with no sample gives an empty History
\* without an error, whose lower_limit and upper_limit can be read and both
\* equal the requested lower_limit.
C15_EmptyResultSetHasLimits ==
    (hpc \notin {"idle", "loop", "break"} /\ result_sets = 1 /\ raw_samples = 0) =>
        /\ hpc = "done"
        /\ herr = NoError
        /\ states = <<>>
        /\ History_lower_limit(states) = [err |-> NoError, value |-> lower_limit]
        /\ History_upper_limit(states) = [err |-> NoError, value |-> lower_limit]

\* C16: an answer of no result set or of several makes the call raise
\* HistoryUnavailable with no History built, and every call has queried
\* Home Assistant exactly once.
C16_UnexpectedResponseRaises ==
    /\ get_history_calls = IF hpc = "idle" THEN 0 ELSE 1
    /\ (hpc # "idle" /\ result_sets # 1) =>
          /\ hpc = "raised"
          /\ herr = "HistoryUnavailable"
          /\ parsed_state_history = <<>>
          /\ merged_states = <<>>
          /\ states = <<>>
    /\ (hpc # "idle" /\ result_sets = 1) => herr = NoError

\* C16 witness: Home Assistant answered with two result sets; the call
\* raised after its single query.
C16_Witness ==
    /\ hpc = "raised"
    /\ result_sets = 2
    /\ get_history_calls = 1
    /\ herr = "HistoryUnavailable"

\* the states a second call returns for the same window, flag and policy
\* when Home Assistant answers with the given samples
SecondCall(answer) ==
    ReturnedStates(cls, reverse,
                   Reconstruct(cls, lower_limit, upper_limit, SortedByLastUpdated(answer)))

\* no two samples of the answer share last_updated
DistinctLastUpdated ==
    \A i, j \in 1..Len(state_history) :
        i # j => state_history[i].last_updated # state_history[j].last_updated

LowerLimitCovered ==
    IF contributed = None THEN FALSE ELSE contributed.last_changed < lower_limit

\* C19 as stated: once a sample that changed before lower_limit has emitted an
\* interval or extended the last emitted one, no older sample emits an
\* interval or changes an emitted interval.
C19_StopsOnceLowerLimitCovered ==
    [][LowerLimitCovered => merged_states' = merged_states]_vars

\* C20 as stated: the lateness test compares last_changed with the requested
\* upper_limit during the whole reconstruction, so with the default policy
\* every sample changed at or before upper_limit that the loop pops has an
\* interval of its state in the History.
C20_LateOnlyAfterUpperLimit ==
    /\ hpc = "loop" => end_time = upper_limit
    /\ (Reconstructed /\ cls = "CosmoStateHistory" /\ parsed_state_history = <<>>) =>
          \A i \in 1..Len(state_history) :
              state_history[i].last_changed <= upper_limit =>
                  \E m \in 1..Len(merged_states) :
                      merged_states[m].state = state_history[i].state

-----------------------------------------------------------------------------
(* Further properties of log_cleaning_time (Spec) *)

\* the intervals of the room History whose [start_time, end_time) holds dttm
Covering(dttm) ==
    {k \in 1..Len(room_history) :
        room_history[k].start_time <= dttm /\ dttm < room_history[k].end_time}

\* the delta intervals among the first k for which state_at was called
LookedUp(k) == {i \in 1..k : DeltaAttributed(area_cleaned_history, i)}

\* state_at's last result is an interval of the room History that holds the
\* start of the last delta interval it was called for, and the call that
\* raised NotFound had no such interval
StateAtAnswersCovering ==
    /\ IF LookedUp(area_index) = {}
       THEN room_state = None
       ELSE LET i == CHOOSE x \in LookedUp(area_index) :
                         \A y \in LookedUp(area_index) : y <= x
            IN  \E k \in Covering(area_cleaned_history[i].start_time) :
                    room_history[k] = room_state
    /\ (pc = "raised" /\ err = "NotFound") =>
          Covering(area_cleaned_history[area_index + 1].start_time) = {}

\* C17: state_at(t) returns an interval of the History with
\* start_time <= t < end_time whenever there is one, raises NotFound
\* otherwise, and leaves the History as it was.
C17_StateAtReturnsCoveringInterval ==
    [][/\ StateAtAnswersCovering'
       /\ pc = "aggregate" => room_history' = room_history]_vars

\* C17 witness: state_at was asked for the end of the newest interval of a
\* non-empty room History and raised NotFound.
C17_Witness ==
    /\ pc = "raised"
    /\ err = "NotFound"
    /\ room_history # <<>>
    /\ area_cleaned_history[area_index + 1].start_time =
          room_history[Len(room_history)].end_time

-----------------------------------------------------------------------------
(* Properties of CurrentRoomHistory.from_state_history (RoomHistorySpec) *)

\* the locals of the loop as LoopBody takes them
LoopLocals ==
    [pending |-> parsed_state_history, merged |-> merged_states,
     end_time |-> end_time, state |-> contributed, broke |-> FALSE]

\* the sample about to be popped has a raw predecessor whose state is the
\* state of the last emitted interval, and lasted less than 20 seconds
\* before that interval starts
DebouncePending ==
    IF cls = "CurrentRoomHistory" /\ hpc = "loop" /\ Len(parsed_state_history) >= 2
          /\ merged_states # <<>>
    THEN /\ parsed_state_history[Len(parsed_state_history) - 1].state =
               Last(merged_states).state
         /\ Last(merged_states).start_time - Last(parsed_state_history).last_updated
               < DebounceSeconds
    ELSE FALSE

\* C11 as stated: such a sample emits no interval, and when the loop has
\* ended the interval emitted for its successor also spans its predecessor:
\* same state, same end, and a start no later than the predecessor's
\* max(lower_limit, last_changed).
C11_DebouncedRunsBecomeOne ==
    DebouncePending =>
        LET k           == Len(merged_states)
            predecessor == parsed_state_history[Len(parsed_state_history) - 1]
            after       == RunLoop(cls, lower_limit, LoopLocals).merged
        IN  /\ LoopBody(cls, lower_limit, LoopLocals).merged = merged_states
            /\ after[k].state = merged_states[k].state
            /\ after[k].end_time = merged_states[k].end_time
            /\ after[k].start_time <= Max(lower_limit, predecessor.last_changed)

-----------------------------------------------------------------------------
(* Properties of the returned History (HistorySpec) *)

\* C21 as stated: in oldest-first order the interval starts of a History
\* increase strictly, so no two intervals share a start.
C21_StartsStrictlyIncreasing ==
    Reconstructed =>
        \A i \in 1..(Len(OldestFirst) - 1) :
            OldestFirst[i].start_time < OldestFirst[i + 1].start_time

\* the runs of same-state samples among the parsed samples
Runs(h) ==
    Cardinality({i \in 1..Len(h) : i = 1 \/ h[i - 1].state # h[i].state})

History_duration(s) ==
    IF s = <<>> THEN [err |-> "IndexError", value |-> 0]
    ELSE [err |-> NoError,
          value |-> History_upper_limit(s).value - History_lower_limit(s).value]

RECURSIVE SumOfDurations(_)
SumOfDurations(s) ==
    IF s = <<>> THEN 0
    ELSE (s[1].end_time - s[1].start_time) + SumOfDurations(SubSeq(s, 2, Len(s)))

\* C28 as stated: a non-empty History, oldest first or newest first, has
\* lower_limit <= upper_limit and a duration that is not negative and is the
\* sum of its intervals' durations.
C28_DurationIsSumOfIntervals ==
    (Reconstructed /\ states # <<>>) =>
        /\ History_lower_limit(states).value <= History_upper_limit(states).value
        /\ History_duration(states).value >= 0
        /\ History_duration(states).value = SumOfDurations(states)

\* the sample about to be popped in a CurrentRoomHistory loop is not late
\* and is in another room than the last emitted interval
RoomSamplePending ==
    IF cls = "CurrentRoomHistory" /\ hpc = "loop" /\ parsed_state_history # <<>>
    THEN /\ Last(parsed_state_history).last_updated <= end_time
         /\ ~IsContinuation(IF merged_states # <<>> THEN Last(merged_states) ELSE None,
                            Last(parsed_state_history))
    ELSE FALSE

\* the raw predecessor of the pending sample is in the room of the last
\* emitted interval (lines 445-447)
Bracketed ==
    IF Len(parsed_state_history) >= 2 /\ merged_states # <<>>
    THEN parsed_state_history[Len(parsed_state_history) - 1].state =
             Last(merged_states).state
    ELSE FALSE

\* how long the robot stayed in the pending sample's room (line 449)
TimeInRoom == Last(merged_states).start_time - Last(parsed_state_history).last_updated

\* a pending room sample emits no interval exactly when it is bracketed and
\* stayed for less than `seconds`
DroppedExactlyWhenShorterThan(seconds) ==
    RoomSamplePending =>
        ((merged_states' = merged_states) <=>
            (IF Bracketed THEN TimeInRoom < seconds ELSE FALSE))

\* C24 as stated: a room sample is dropped only when bracketed by the same
\* room and shorter than 10 seconds; one that lasted 10 seconds or more is
\* kept. (Line 449 compares with 20 seconds, the docstring at line 438 says 10.)
C24_DroppedOnlyUnderTenSeconds == [][DroppedExactlyWhenShorterThan(10)]_vars

-----------------------------------------------------------------------------
(* Properties of the handler (Spec) *)

\* the next delta interval is attributed and no room interval covers its start
NotFoundPending ==
    IF pc = "aggregate" /\ area_index < Len(area_cleaned_history)
    THEN /\ IsAttributed(area_cleaned_history[area_index + 1].state, prev_value)
         /\ state_at(room_history,
                     area_cleaned_history[area_index + 1].start_time) = None
    ELSE FALSE

\* C22 as stated: a delta interval whose start no room interval covers does
\* not abort the aggregation; the loop goes on with the next delta interval.
C22_NotFoundDoesNotAbort ==
    [][NotFoundPending => (pc' = "aggregate" /\ area_index' = area_index + 1)]_vars

\* C23: set_datetime calls exist only once the scan, the refinement, both
\* window Histories and the aggregation have run without error; an error
\* ends the invocation and leaves it without calls.
C23_CallsOnlyAfterAllStepsSucceed ==
    /\ service_calls # <<>> =>
          /\ pc = "returned"
          /\ err = NoError
          /\ history_queries = 4
          /\ area_index = Len(area_cleaned_history)
    /\ err # NoError => (pc = "raised" /\ service_calls = <<>>)
    /\ pc = "raised" => err # NoError

\* C23 witness: an invocation that queried four Histories and set a timestamp.
C23_Witness ==
    /\ pc = "returned"
    /\ history_queries = 4
    /\ service_calls # <<>>

\* the values of the delta History never decrease from oldest to newest
NonDecreasing(h) == \A i \in 1..(Len(h) - 1) : h[i].state <= h[i + 1].state

\* every delta interval's start is covered by a room interval
CoversEveryStart(rooms, h) ==
    \A i \in 1..Len(h) : state_at(rooms, h[i].start_time) # None

RECURSIVE SumOfAreas(_)
SumOfAreas(d) ==
    IF d = <<>> THEN 0 ELSE d[1].area + SumOfAreas(SubSeq(d, 2, Len(d)))

\* the mapping has been returned by _get_area_cleaned_by_room
Aggregated == pc = "returned" /\ history_queries = 4

\* C26: for a non-decreasing delta History whose starts the room History
\* covers, the areas of the returned mapping sum to the newest delta value.
C26_AreasSumToNewestDelta ==
    (/\ Aggregated
     /\ area_cleaned_history # <<>>
     /\ NonDecreasing(area_cleaned_history)
     /\ CoversEveryStart(room_history, area_cleaned_history)) =>
        SumOfAreas(area_cleaned_by_room) = Last(area_cleaned_history).state

\* C26 witness: two increasing delta intervals credited to two rooms.
C26_Witness ==
    /\ Aggregated
    /\ Len(area_cleaned_history) = 2
    /\ NonDecreasing(area_cleaned_history)
    /\ CoversEveryStart(room_history, area_cleaned_history)
    /\ Len(area_cleaned_by_room) = 2

\* _get_cleaning_period has returned and its locals are still there
PeriodReturned == pc = "room_history"

C29_NoEffectUnlessRoomCleaningCompleted ==
    (pc # "idle" /\ ~(new = "completed" /\ (is_room_cleaning(old) \/ is_paused(old)))) =>
        /\ pc = "returned"
        /\ history_queries = 0
        /\ service_calls = <<>>
        /\ err = NoError

\* C29 witness: completed after fast_mapping returned at once.
C29_Witness ==
    /\ pc = "returned"
    /\ new = "completed"
    /\ old = "fast_mapping"
    /\ history_queries = 0

-----------------------------------------------------------------------------
(* CreditCardPotManager: run_daily_process and top_up_credit_card_pot *)

ACTION_PHRASE == "TOP_UP_CREDIT_CARD_POT"

\* abs(deficit) < 50 (pounds), in tenths of a penny
SkipNoticeBelow == 50000

\* 0 < top_up_amount < 10000 * 100 (pence)
MaxTopUpPence == 1000000

\* the balances and limits Home Assistant may hold, in tenths of a penny
AmexBalances == {0, 20005, 60000, 20000000}
MonzoCreditCardsBalances == {0, 20000, 60000}
MonzoCurrentAccountBalances == {0, 30000, 45004, 30000000}
MinimumRemainders == {0, 50000}
MaximumAutoTopUps == {0, 50000, 50000000}

\* float(self.get_state(...)): the number, or ValueError for a state such as
\* "unavailable"
Readings(S) ==
    {[ok |-> TRUE, value |-> v] : v \in S} \cup {[ok |-> FALSE, value |-> 0]}

\* round() of a number of pence given in tenths of a penny: half to even
RoundPence(m) ==
    LET q == m \div 10
        r == m % 10
    IN  IF r < 5 THEN q
        ELSE IF r > 5 THEN q + 1
        ELSE IF q % 2 = 0 THEN q ELSE q + 1

\* round(x, 2), in tenths of a penny
Round2(m) == RoundPence(m) * 10

Min(a, b) == IF a <= b THEN a ELSE b

Abs(a) == IF a < 0 THEN 0 - a ELSE a

\* lines 92-93: available and top_up_amount
TopUpAmount(current, remainder, d) == Min(Max(current - remainder, 0), d)

\* lines 95-98: the action f"{ACTION_PHRASE}:{top_up_amount}", as the two
\* parts split(":") gives back
NotificationAction(amount) == [action_phrase |-> ACTION_PHRASE, amount |-> amount]

\* f"{top_up_amount:.2f}": the amount a message names, in pence
Announced(amount) == RoundPence(amount)

\* lines 170-179: the deposit top_up_credit_card_pot requests for `data`,
\* <<>> where it returns without calling deposit_into_pot
DepositRequest(data) ==
    IF data.action_phrase # ACTION_PHRASE THEN <<>>
    ELSE LET amount_pence == RoundPence(data.amount)
         IN  IF ~(0 < amount_pence /\ amount_pence < MaxTopUpPence)
             THEN <<>>
             ELSE <<[amount_pence |-> amount_pence]>>

Notification(title, amount) == [title |-> title, announced |-> Announced(amount)]

ManagerInit ==
    /\ cls = "TaskStatusHistory"
    /\ ManagerIdle
    /\ HistoryIdle
    /\ HandlerIdle

\* lines 54-78: the two balances, the deficit and the early return
RunDailyProcess ==
    /\ mpc = "idle"
    /\ \E amex_balance \in Readings(AmexBalances),
          monzo_credit_cards_balance \in Readings(MonzoCreditCardsBalances) :
          IF ~amex_balance.ok \/ ~monzo_credit_cards_balance.ok
          THEN /\ mpc' = "raised"
               /\ UNCHANGED <<deficit, notify_calls>>
          ELSE LET d == Round2(amex_balance.value - monzo_credit_cards_balance.value)
               IN  /\ deficit' = d
                   /\ mpc' = IF d <= 0 THEN "returned" ELSE "limits"
                   /\ notify_calls' =
                         IF d <= 0 /\ Abs(d) < SkipNoticeBelow
                         THEN Append(notify_calls,
                                     Notification("Credit Card Pot top up skipped", 0))
                         ELSE notify_calls
    /\ UNCHANGED <<monzo_current_account_balance, top_up_amount, deposit_calls>>
    /\ UNCHANGED <<hvars, pvars>>

\* lines 80-100 and 139-161: the current balance and the two limits, the
\* top-up amount, and the notification that asks when it is not below the
\* automatic maximum
ReadLimits ==
    /\ mpc = "limits"
    /\ \E current \in Readings(MonzoCurrentAccountBalances),
          min_remainder \in Readings(MinimumRemainders),
          max_auto_top_up \in Readings(MaximumAutoTopUps) :
          IF ~current.ok \/ ~min_remainder.ok \/ ~max_auto_top_up.ok
          THEN /\ mpc' = "raised"
               /\ UNCHANGED <<monzo_current_account_balance, top_up_amount,
                              notify_calls>>
          ELSE LET amount == TopUpAmount(current.value, min_remainder.value, deficit)
               IN  /\ monzo_current_account_balance' = current.value
                   /\ top_up_amount' = amount
                   /\ IF amount < max_auto_top_up.value
                      THEN /\ mpc' = "top_up"
                           /\ UNCHANGED notify_calls
                      ELSE /\ mpc' = "returned"
                           /\ notify_calls' =
                                 Append(notify_calls,
                                        Notification("Top up Credit Card Pot?", amount))
    /\ UNCHANGED <<deficit, deposit_calls>>
    /\ UNCHANGED <<hvars, pvars>>

\* lines 106-110 and 163-187: the call of top_up_credit_card_pot; an error
\* of deposit_into_pot is not caught
TopUpCreditCardPot ==
    /\ mpc = "top_up"
    /\ LET request == DepositRequest(NotificationAction(top_up_amount))
       IN  /\ deposit_calls' = deposit_calls \o request
           /\ IF request = <<>>
              THEN mpc' = "notify"
              ELSE \E deposited \in BOOLEAN :
                      mpc' = IF deposited THEN "notify" ELSE "raised"
    /\ UNCHANGED <<deficit, monzo_current_account_balance, top_up_amount,
                   notify_calls>>
    /\ UNCHANGED <<hvars, pvars>>

\* lines 112-138: the notification after top_up_credit_card_pot has returned
NotifyToppedUp ==
    /\ mpc = "notify"
    /\ notify_calls' =
          Append(notify_calls,
                 Notification("Credit Card Pot automatically topped up", top_up_amount))
    /\ mpc' = "returned"
    /\ UNCHANGED <<deficit, monzo_current_account_balance, top_up_amount,
                   deposit_calls>>
    /\ UNCHANGED <<hvars, pvars>>

ManagerNext ==
    \/ RunDailyProcess
    \/ ReadLimits
    \/ TopUpCreditCardPot
    \/ NotifyToppedUp

ManagerSpec == ManagerInit /\ [][ManagerNext]_vars

\* C30 as stated: the "automatically topped up" notification is sent only
\* if the same run called deposit_into_pot with the amount it announces.
C30_ToppedUpNoticeOnlyAfterDeposit ==
    \A i \in 1..Len(notify_calls) :
        notify_calls[i].title = "Credit Card Pot automatically topped up" =>
            \E j \in 1..Len(deposit_calls) :
                deposit_calls[j].amount_pence = notify_calls[i].announced

=============================================================================
